---------------------------- MODULE Spec2Model ----------------------------
(***************************************************************************)
(* DNA Pattern Finder (src/dna_pattern_finder.py).                         *)
(*                                                                         *)
(* Text is modelled as a sequence of one-character strings, so that        *)
(* slicing, scanning, stripping and upper-casing are computed character by *)
(* character as the Python code does.  A call's outcome is a record        *)
(* [kind, value]: kind "ok" carries the returned value, any other kind is  *)
(* the name of the Python exception the call ends in.                      *)
(***************************************************************************)
EXTENDS Integers, Sequences, FiniteSets, TLC

(***************************************************************************)
(* Bounds of the model.                                                    *)
(***************************************************************************)
MaxSeqLen == 5        \* longest sequence handed to the analysis functions
MaxMotifLen == 3      \* longest motif handed to find_motif_positions
MaxWindow == 6        \* window sizes range over -MaxWindow..MaxWindow
MaxOrfLen == 9        \* longest sequence handed to find_orfs
MaxRawLen == 5        \* longest raw file content handed to load_sequence
MaxEntryLen == 2      \* longest text typed at the filename and motif prompts

(***************************************************************************)
(* Characters and text helpers.                                            *)
(***************************************************************************)
\* VALID_BASES = "ACGT"
VALID_BASES == <<"A", "C", "G", "T">>

Bases == {VALID_BASES[k] : k \in 1..Len(VALID_BASES)}

\* the characters str.split() and str.strip() treat as whitespace
Whitespace == {" ", "\n", "\t"}

\* str.upper() on one character
Upper(c) ==
    CASE c = "a" -> "A"
      [] c = "c" -> "C"
      [] c = "g" -> "G"
      [] c = "t" -> "T"
      [] c = "n" -> "N"
      [] c = "x" -> "X"
      [] c = "m" -> "M"
      [] c = "s" -> "S"
      [] c = "o" -> "O"
      [] c = "r" -> "R"
      [] c = "q" -> "Q"
      [] c = "z" -> "Z"
      [] OTHER -> c

\* str.upper() on a text
UpperText(s) == [k \in 1..Len(s) |-> Upper(s[k])]

IsSpace(c) == c \in Whitespace

\* "".join(text.split()): every whitespace character removed, anywhere
RemoveWhitespace(s) == SelectSeq(s, LAMBDA c : ~IsSpace(c))

RECURSIVE LStrip(_)
LStrip(s) == IF s # <<>> /\ IsSpace(Head(s)) THEN LStrip(Tail(s)) ELSE s

RECURSIVE RStrip(_)
RStrip(s) ==
    IF s # <<>> /\ IsSpace(s[Len(s)]) THEN RStrip(SubSeq(s, 1, Len(s) - 1)) ELSE s

\* str.strip(): leading and trailing whitespace removed
Strip(s) == RStrip(LStrip(s))

\* Python slice s[a:b] for 0 <= a, with b clamped to len(s)
Slice(s, a, b) == SubSeq(s, a + 1, IF b < Len(s) THEN b ELSE Len(s))

\* all sequences over S of length 0..n
SeqsUpTo(S, n) == UNION {[1..k -> S] : k \in 0..n}

Ok(v) == [kind |-> "ok", value |-> v]
Raise(k, v) == [kind |-> k, value |-> v]

(***************************************************************************)
(* load_sequence: open, read, normalise, validate.                         *)
(***************************************************************************)
\* An optional value (Python's None, or a missing file) is the empty set, a
\* present value x is {x}.
None == {}
Some(x) == {x}
The(opt) == CHOOSE x \in opt : TRUE

NoFile == None

EmptyFileMessage == "File is empty or contains no sequence data."

\* the for loop of load_sequence: the first base not in VALID_BASES, or "" if none
RECURSIVE FirstInvalidBase(_)
FirstInvalidBase(s) ==
    IF s = <<>> THEN ""
    ELSE IF Head(s) \notin Bases THEN Head(s)
    ELSE FirstInvalidBase(Tail(s))

\* variant: only leading and trailing whitespace removed (strip for split/join)
normalise_strip_only(raw_text) == UpperText(Strip(raw_text))

normalise(raw_text) == UpperText(RemoveWhitespace(raw_text))

load_sequence(fs, name) ==
    IF name \notin DOMAIN fs \/ fs[name] = NoFile
    THEN Raise("FileNotFoundError", name)
    ELSE LET seq == normalise(The(fs[name]))
         IN  IF seq = <<>> THEN Raise("ValueError", <<EmptyFileMessage>>)
             ELSE IF FirstInvalidBase(seq) # ""
                  THEN Raise("ValueError", <<"Invalid base", FirstInvalidBase(seq)>>)
                  ELSE Ok(seq)

(***************************************************************************)
(* get_base_count, calculate_gc_content.                                   *)
(***************************************************************************)
RECURSIVE CountLoop(_, _)
CountLoop(s, base_count) ==
    IF s = <<>> THEN base_count
    ELSE CountLoop(Tail(s), [base_count EXCEPT ![Head(s)] = @ + 1])

get_base_count(s) == CountLoop(s, [b \in Bases |-> 0])

\* The percentage gc_bases / dna_length * 100 is kept as the exact fraction
\* num / den with num = 100 * gc_bases and den = dna_length.
calculate_gc_content(s) ==
    LET base_count == get_base_count(s)
        dna_length == Len(s)
        gc_bases   == base_count["G"] + base_count["C"]
    IN  IF dna_length = 0 THEN Raise("ZeroDivisionError", "division by zero")
        ELSE Ok([num |-> gc_bases * 100, den |-> dna_length])

(***************************************************************************)
(* find_motif_positions.                                                   *)
(***************************************************************************)
\* for i in range(len(sequence) - motif_length + 1)
RECURSIVE MotifLoop(_, _, _, _)
MotifLoop(s, m, i, positions) ==
    IF i >= Len(s) - Len(m) + 1 THEN positions
    ELSE MotifLoop(s, m, i + 1,
                   IF Slice(s, i, i + Len(m)) = m THEN Append(positions, i)
                   ELSE positions)

\* variant: the scan starts at offset 1
find_motif_positions_from_one(s, m) == Ok(MotifLoop(s, UpperText(m), 1, <<>>))

\* variant: a motif longer than the sequence is an error
find_motif_positions_strict(s, m) ==
    IF Len(m) > Len(s) THEN Raise("ValueError", "Motif is longer than the sequence.")
    ELSE Ok(MotifLoop(s, UpperText(m), 0, <<>>))

find_motif_positions(s, m) == Ok(MotifLoop(s, UpperText(m), 0, <<>>))

(***************************************************************************)
(* calculate_window_gc.                                                    *)
(***************************************************************************)
\* for start in range(0, sequence_length, window_size), window_size > 0
RECURSIVE WindowLoop(_, _, _, _)
WindowLoop(s, w, start, gc_percentages) ==
    IF start >= Len(s) THEN gc_percentages
    ELSE LET window == Slice(s, start, start + w)
         IN  IF window = <<>> THEN WindowLoop(s, w, start + w, gc_percentages)
             ELSE WindowLoop(s, w, start + w,
                             Append(gc_percentages, calculate_gc_content(window).value))

\* variant: only full windows, range(0, n - w + 1, w)
calculate_window_gc_full_only(s, w) ==
    IF w = 0 THEN Raise("ValueError", "range() arg 3 must not be zero")
    ELSE IF w < 0 THEN Ok(<<>>)
    ELSE LET all == WindowLoop(s, w, 0, <<>>)
         IN  Ok(IF Len(s) % w = 0 THEN all ELSE SubSeq(all, 1, Len(all) - 1))

calculate_window_gc(s, w) ==
    IF w = 0 THEN Raise("ValueError", "range() arg 3 must not be zero")
    ELSE IF w < 0 THEN Ok(<<>>)      \* range(0, n, negative) is empty
    ELSE Ok(WindowLoop(s, w, 0, <<>>))

(***************************************************************************)
(* find_orfs.                                                              *)
(***************************************************************************)
start_codon == <<"A", "T", "G">>
stop_codons == {<<"T", "A", "A">>, <<"T", "A", "G">>, <<"T", "G", "A">>}

\* variant: the end index is exclusive (j + 3)
RECURSIVE InnerScanExclusiveEnd(_, _)
InnerScanExclusiveEnd(s, j) ==
    IF j > Len(s) - 3 THEN -1
    ELSE IF Slice(s, j, j + 3) \in stop_codons THEN j + 3
    ELSE InnerScanExclusiveEnd(s, j + 3)

\* the inner while loop: the end index of the first in-frame stop, or -1
RECURSIVE InnerScan(_, _)
InnerScan(s, j) ==
    IF j > Len(s) - 3 THEN -1
    ELSE IF Slice(s, j, j + 3) \in stop_codons THEN j + 2
    ELSE InnerScan(s, j + 3)

\* variant: after recording an ORF the outer cursor jumps past its end
RECURSIVE OuterScanSkipOrf(_, _, _)
OuterScanSkipOrf(s, i, orfs) ==
    IF i > Len(s) - 3 THEN orfs
    ELSE IF Slice(s, i, i + 3) = start_codon
         THEN LET end_index == InnerScan(s, i + 3)
              IN  IF end_index # -1
                  THEN OuterScanSkipOrf(s, end_index + 1, Append(orfs, <<i, end_index>>))
                  ELSE OuterScanSkipOrf(s, i + 1, orfs)
         ELSE OuterScanSkipOrf(s, i + 1, orfs)

\* the outer while loop
RECURSIVE OuterScan(_, _, _)
OuterScan(s, i, orfs) ==
    IF i > Len(s) - 3 THEN orfs
    ELSE IF Slice(s, i, i + 3) = start_codon
         THEN LET end_index == InnerScan(s, i + 3)
              IN  OuterScan(s, i + 1,
                            IF end_index # -1 THEN Append(orfs, <<i, end_index>>)
                            ELSE orfs)
         ELSE OuterScan(s, i + 1, orfs)

find_orfs(s) == OuterScan(s, 0, <<>>)


(***************************************************************************)
(* Output formatting.                                                      *)
(***************************************************************************)
\* f"{gc:.1f}": the fraction q rounded to one decimal (ties to even), as a
\* number of tenths (400 stands for "40.0").
Format1f(q) ==
    LET n  == q.num * 10
        fl == n \div q.den
        r2 == 2 * (n % q.den)
    IN  IF r2 > q.den \/ (r2 = q.den /\ fl % 2 = 1) THEN fl + 1 ELSE fl

\* the (index, start, stop, length) lines printed for a list of ORFs
OrfLines(orfs) ==
    [k \in 1..Len(orfs) |->
        [index |-> k, start_pos |-> orfs[k][1] + 1, end_pos |-> orfs[k][2] + 1,
         length |-> orfs[k][2] - orfs[k][1] + 1]]

(***************************************************************************)
(* State.                                                                  *)
(***************************************************************************)
VARIABLES
    pc,                    \* the input() call the program is waiting at
    files,                 \* the file system: name -> raw content, or NoFile
    sequence,              \* main's sequence (the analysed sequence)
    filename,              \* get_valid_sequence's / main's filename
    last_motif,            \* main's last_motif
    last_motif_positions,  \* main's last_motif_positions
    returned,              \* value of the last handle_motif_search(sequence) call
    printed,               \* lines printed by the last step
    report,                \* the report file written last
    called,                \* analysis function applied last (function-level runs)
    motif,                 \* its motif argument
    window_size,           \* its window_size argument
    result                 \* its outcome

vars == <<pc, files, sequence, filename, last_motif, last_motif_positions,
          returned, printed, report, called, motif, window_size, result>>

sessionVars == <<pc, files, filename, last_motif, last_motif_positions,
                 returned, printed, report>>
callVars == <<called, motif, window_size, result>>

(***************************************************************************)
(* The interactive session: main and its handlers.                         *)
(***************************************************************************)
\* texts typed at the "DNA file: " and "Report filename: " prompts
NameEntries == SeqsUpTo({"a", " "}, MaxEntryLen)

\* texts typed at the "Motif (A/C/G/T only): " prompt
MotifEntries == SeqsUpTo({"A", "t", "x", " "}, MaxEntryLen)

FileNames == {<<"a">>, <<"a", "a">>}

SampleContents ==
    { <<"A","T","G","A","A","A","T","A","A","A","T","G">>,
      <<"a","t","\n","A","T"," ","\n">>,
      <<"A","C","G","T","X">>,
      <<" ","\n">>,
      <<>> }

MenuInputs == {"S", "M", "m", "G", "O", "R", "Q", "q", "Z"}

\* int(input("Window size: ")): an integer, or ValueError for other text
NotAnInteger == Raise("ValueError", 0)
WindowInputs == {Ok(n) : n \in (0 - MaxWindow)..MaxWindow} \cup {NotAnInteger}

Init ==
    /\ pc = "DNA file"
    /\ files \in [FileNames -> {Some(text) : text \in SampleContents} \cup {NoFile}]
    /\ sequence = <<>>
    /\ filename = <<>>
    /\ last_motif = None
    /\ last_motif_positions = <<>>
    /\ returned = None
    /\ printed = <<>>
    /\ report = None
    /\ called = "none"
    /\ motif = <<>>
    /\ window_size = 0
    /\ result = Raise("none", <<>>)

\* variant: get_valid_sequence returns after a failed load too
EnterFilenameNoRetry ==
    /\ pc = "DNA file"
    /\ \E entry \in NameEntries :
         LET name    == Strip(entry)
             outcome == load_sequence(files, name)
         IN  /\ filename' = name
             /\ sequence' = (IF outcome.kind = "ok" THEN outcome.value ELSE <<>>)
             /\ printed' = <<<<outcome.kind, name>>>>
             /\ pc' = "menu"
    /\ UNCHANGED <<files, last_motif, last_motif_positions, returned, report>>
    /\ UNCHANGED <<called, motif, window_size, result>>

\* get_valid_sequence: one pass of the while True loop
EnterFilename ==
    /\ pc = "DNA file"
    /\ \E entry \in NameEntries :
         LET name    == Strip(entry)
             blank   == IF name = <<>> THEN <<"Filename cannot be blank.">> ELSE <<>>
             outcome == load_sequence(files, name)
         IN  /\ filename' = name
             /\ IF outcome.kind = "ok"
                THEN /\ sequence' = outcome.value
                     /\ printed' = blank \o <<<<"Sequence loaded", name, Len(outcome.value)>>>>
                     /\ pc' = "menu"
                ELSE /\ printed' = blank \o <<<<outcome.kind, name, outcome.value>>>>
                     /\ UNCHANGED <<sequence, pc>>
    /\ UNCHANGED <<files, last_motif, last_motif_positions, returned, report>>
    /\ UNCHANGED callVars

Choice(letter) == pc = "menu" /\ \E c \in MenuInputs : Upper(c) = letter

\* handle_summary
ChooseSummary ==
    /\ Choice("S")
    /\ printed' = <<Len(sequence), get_base_count(sequence),
                    Format1f(calculate_gc_content(sequence).value)>>
    /\ UNCHANGED <<pc, files, sequence, filename, last_motif, last_motif_positions,
                   returned, report>>
    /\ UNCHANGED callVars

\* handle_motif_search up to get_valid_motif's input()
ChooseMotif ==
    /\ Choice("M")
    /\ pc' = "Motif"
    /\ printed' = <<>>
    /\ UNCHANGED <<files, sequence, filename, last_motif, last_motif_positions,
                   returned, report>>
    /\ UNCHANGED callVars

\* get_valid_motif's checks on one entry: the message printed, or "" if accepted
MotifRejection(m, seq) ==
    IF m = <<>> THEN "Motif cannot be blank."
    ELSE IF FirstInvalidBase(UpperText(m)) # "" THEN "Invalid character in motif."
    ELSE IF Len(m) > Len(seq) THEN "Motif is longer than the sequence."
    ELSE ""

\* one pass of get_valid_motif's loop and, once it returns, the rest of
\* handle_motif_search; main drops the returned pair (line 41)
EnterMotif ==
    /\ pc = "Motif"
    /\ \E entry \in MotifEntries :
         LET m == Strip(entry)
         IN  IF MotifRejection(m, sequence) # ""
             THEN /\ printed' = <<MotifRejection(m, sequence)>>
                  /\ UNCHANGED <<pc, returned>>
             ELSE LET positions == find_motif_positions(sequence, UpperText(m)).value
                  IN  /\ printed' = <<UpperText(m), Len(positions),
                                      [k \in 1..Len(positions) |-> positions[k] + 1]>>
                      /\ returned' = Some(<<UpperText(m), positions>>)
                      /\ pc' = "menu"
    /\ UNCHANGED <<files, sequence, filename, last_motif, last_motif_positions, report>>
    /\ UNCHANGED callVars

\* handle_window_gc up to get_valid_window_size's input()
ChooseWindowGc ==
    /\ Choice("G")
    /\ pc' = "Window size"
    /\ printed' = <<>>
    /\ UNCHANGED <<files, sequence, filename, last_motif, last_motif_positions,
                   returned, report>>
    /\ UNCHANGED callVars

Min(a, b) == IF a < b THEN a ELSE b

\* one pass of get_valid_window_size's loop and, once it returns, the rest of
\* handle_window_gc
EnterWindowSize ==
    /\ pc = "Window size"
    /\ \E parsed \in WindowInputs :
         LET entry == parsed.value
         IN
         IF parsed.kind # "ok"
         THEN /\ printed' = <<"Invalid input - please enter a valid integer.">>
              /\ UNCHANGED pc
         ELSE IF entry <= 0
         THEN /\ printed' = <<"Window size must be > 0.">>
              /\ UNCHANGED pc
         ELSE IF entry > Len(sequence)
         THEN /\ printed' = <<"Window size must not be larger than the sequence length.">>
              /\ UNCHANGED pc
         ELSE LET gc_percentages == calculate_window_gc(sequence, entry).value
              IN  /\ printed' = [index \in 1..Len(gc_percentages) |->
                                   [index |-> index,
                                    start_base |-> (index - 1) * entry + 1,
                                    end_base |-> Min(index * entry, Len(sequence)),
                                    gc |-> Format1f(gc_percentages[index])]]
                  /\ pc' = "menu"
    /\ UNCHANGED <<files, sequence, filename, last_motif, last_motif_positions,
                   returned, report>>
    /\ UNCHANGED callVars

\* handle_orf_search
ChooseOrfs ==
    /\ Choice("O")
    /\ printed' = (IF find_orfs(sequence) = <<>> THEN <<"No ORFs found.">>
                   ELSE OrfLines(find_orfs(sequence)))
    /\ UNCHANGED <<pc, files, sequence, filename, last_motif, last_motif_positions,
                   returned, report>>
    /\ UNCHANGED callVars

\* export_report up to its input()
ChooseReport ==
    /\ Choice("R")
    /\ pc' = "Report filename"
    /\ printed' = <<>>
    /\ UNCHANGED <<files, sequence, filename, last_motif, last_motif_positions,
                   returned, report>>
    /\ UNCHANGED callVars

\* the text export_report writes
ReportText(seq, current_filename, lm, lm_positions) ==
    [ source      |-> current_filename,
      length      |-> Len(seq),
      base_counts |-> get_base_count(seq),
      gc          |-> Format1f(calculate_gc_content(seq).value),
      motif       |-> IF lm = None THEN <<"(none)">> ELSE The(lm),
      occurrences |-> IF lm = None THEN <<"n/a">> ELSE <<Len(lm_positions)>>,
      orfs        |-> OrfLines(find_orfs(seq)) ]

\* export_report: blank name, or the report written
EnterReportFilename ==
    /\ pc = "Report filename"
    /\ \E entry \in NameEntries :
         LET report_filename == Strip(entry)
         IN  IF report_filename = <<>>
             THEN /\ printed' = <<"Report filename cannot be blank.">>
                  /\ UNCHANGED report
             ELSE /\ report' = Some([name |-> report_filename,
                                     text |-> ReportText(sequence, filename, last_motif,
                                                         last_motif_positions)])
                  /\ printed' = <<"Report saved to", report_filename>>
    /\ pc' = "menu"
    /\ UNCHANGED <<files, sequence, filename, last_motif, last_motif_positions, returned>>
    /\ UNCHANGED callVars

\* export_report: open(report_filename, "w") raises OSError
ReportOSError ==
    /\ pc = "Report filename"
    /\ \E entry \in NameEntries :
         /\ Strip(entry) # <<>>
         /\ printed' = <<"Error saving report", Strip(entry)>>
    /\ pc' = "menu"
    /\ UNCHANGED <<files, sequence, filename, last_motif, last_motif_positions,
                   returned, report>>
    /\ UNCHANGED callVars

\* any other menu entry
ChooseInvalid ==
    /\ pc = "menu"
    /\ \E c \in MenuInputs : Upper(c) \notin {"S", "M", "G", "O", "R", "Q"}
    /\ printed' = <<"Invalid menu option.">>
    /\ UNCHANGED <<pc, files, sequence, filename, last_motif, last_motif_positions,
                   returned, report>>
    /\ UNCHANGED callVars

ChooseQuit ==
    /\ Choice("Q")
    /\ pc' = "done"
    /\ printed' = <<"Happy hunting!">>
    /\ UNCHANGED <<files, sequence, filename, last_motif, last_motif_positions,
                   returned, report>>
    /\ UNCHANGED callVars

Next ==
    \/ EnterFilename
    \/ ChooseSummary
    \/ ChooseMotif
    \/ EnterMotif
    \/ ChooseWindowGc
    \/ EnterWindowSize
    \/ ChooseOrfs
    \/ ChooseReport
    \/ EnterReportFilename
    \/ ReportOSError
    \/ ChooseInvalid
    \/ ChooseQuit

Spec == Init /\ [][Next]_vars

(***************************************************************************)
(* Function-level runs: one analysis function applied to inputs drawn from *)
(* bounded sets, in and out of the contract its callers keep.  The         *)
(* arguments are the call's own, and a run is one call.                    *)
(***************************************************************************)
idleSession ==
    /\ pc = "call"
    /\ filename = <<>>
    /\ last_motif = None
    /\ last_motif_positions = <<>>
    /\ returned = None
    /\ printed = <<>>
    /\ report = None

idleCall ==
    /\ called = "none"
    /\ motif = <<>>
    /\ window_size = 0
    /\ result = Raise("none", <<>>)

InitCalls ==
    /\ idleSession
    /\ idleCall
    /\ files = [n \in {} |-> None]
    /\ \E n \in 0..MaxSeqLen : sequence \in [1..n -> Bases]

CallGetBaseCount ==
    /\ called = "none"
    /\ called' = "get_base_count"
    /\ result' = Ok(get_base_count(sequence))
    /\ motif' = <<>>
    /\ window_size' = 0
    /\ UNCHANGED sequence
    /\ UNCHANGED sessionVars

CallCalculateGcContent ==
    /\ called = "none"
    /\ called' = "calculate_gc_content"
    /\ result' = calculate_gc_content(sequence)
    /\ motif' = <<>>
    /\ window_size' = 0
    /\ UNCHANGED sequence
    /\ UNCHANGED sessionVars

CallFindMotifPositions ==
    /\ called = "none"
    /\ \E m \in SeqsUpTo(Bases, MaxMotifLen) \ {<<>>} :
         /\ motif' = m
         /\ result' = find_motif_positions(sequence, m)
    /\ called' = "find_motif_positions"
    /\ window_size' = 0
    /\ UNCHANGED sequence
    /\ UNCHANGED sessionVars

CallCalculateWindowGc ==
    /\ called = "none"
    /\ \E w \in (0 - MaxWindow)..MaxWindow :
         /\ window_size' = w
         /\ result' = calculate_window_gc(sequence, w)
    /\ called' = "calculate_window_gc"
    /\ motif' = <<>>
    /\ UNCHANGED sequence
    /\ UNCHANGED sessionVars

NextCalls ==
    \/ CallGetBaseCount
    \/ CallCalculateGcContent
    \/ CallFindMotifPositions
    \/ CallCalculateWindowGc

SpecCalls == InitCalls /\ [][NextCalls]_vars

InitOrfs ==
    /\ idleSession
    /\ idleCall
    /\ files = [n \in {} |-> None]
    /\ \E n \in 0..MaxOrfLen : sequence \in [1..n -> Bases]

CallFindOrfs ==
    /\ called = "none"
    /\ called' = "find_orfs"
    /\ result' = Ok(find_orfs(sequence))
    /\ motif' = <<>>
    /\ window_size' = 0
    /\ UNCHANGED sequence
    /\ UNCHANGED sessionVars

SpecOrfs == InitOrfs /\ [][CallFindOrfs]_vars

\* characters of the raw file contents tried
RawChars == {"A", "C", "G", "T", "a", "X", "n", " ", "\n", "\t"}

LoadedName == <<"a">>

InitLoad ==
    /\ idleSession
    /\ idleCall
    /\ \E n \in 0..MaxRawLen : \E raw \in [1..n -> RawChars] :
          files = [name \in {LoadedName} |-> Some(raw)]
    /\ sequence = <<>>

CallLoadSequence ==
    /\ called = "none"
    /\ called' = "load_sequence"
    /\ result' = load_sequence(files, LoadedName)
    /\ motif' = <<>>
    /\ window_size' = 0
    /\ UNCHANGED sequence
    /\ UNCHANGED sessionVars

SpecLoad == InitLoad /\ [][CallLoadSequence]_vars

(***************************************************************************)
(* Properties.                                                             *)
(***************************************************************************)
Range(f) == {f[k] : k \in DOMAIN f}

StrictlyAscending(f) == \A k \in 1..(Len(f) - 1) : f[k] < f[k + 1]

\* number of G and C among positions lo..hi (1-based, inclusive) of s
GcIn(s, lo, hi) == Cardinality({p \in lo..hi : s[p] \in {"G", "C"}})

\* the k-th smallest element of a set P of integers
Kth(P, k) == CHOOSE p \in P : Cardinality({q \in P : q < p}) = k - 1

\* raw with every whitespace character dropped and the rest upper-cased
Normalised(raw) ==
    LET kept == {p \in 1..Len(raw) : raw[p] \notin Whitespace}
    IN  [k \in 1..Cardinality(kept) |-> Upper(raw[Kth(kept, k)])]

\* C1: a report written by R after a motif search has completed shows the
\* motif searched last and the number of its occurrences; a report written
\* before any search shows "(none)" and "n/a".
C1_ReportShowsLastMotif ==
    [][ (pc = "Report filename" /\ printed'[1] = "Report saved to")
        => LET text == The(report').text
           IN  IF returned = None
               THEN text.motif = <<"(none)">> /\ text.occurrences = <<"n/a">>
               ELSE /\ text.motif = The(returned)[1]
                    /\ text.occurrences = <<Len(The(returned)[2])>> ]_vars

\* C2: calculate_window_gc ends in an InvalidWindowSize error, and returns no
\* list, for every non-empty sequence and window_size <= 0 or > len(sequence).
C2_RejectsOutOfRangeWindow ==
    (called = "calculate_window_gc" /\ Len(sequence) > 0
        /\ (window_size <= 0 \/ window_size > Len(sequence)))
    => result.kind = "InvalidWindowSize"

\* C3: load_sequence returns the whitespace-free upper-cased text exactly when
\* that text is non-empty and all A/C/G/T; it fails with the empty-file error
\* when nothing remains, and otherwise with the invalid-base error naming the
\* first character, left to right, outside A/C/G/T.
C3_LoadSequence ==
    called = "load_sequence" =>
        LET n   == Normalised(The(files[LoadedName]))
            bad == {p \in 1..Len(n) : n[p] \notin {"A", "C", "G", "T"}}
        IN  /\ (n # <<>> /\ bad = {}) <=> result.kind = "ok"
            /\ result.kind = "ok" => result.value = n
            /\ n = <<>> => result = Raise("ValueError", <<EmptyFileMessage>>)
            /\ bad # {} => result = Raise("ValueError", <<"Invalid base", n[Kth(bad, 1)]>>)

C3_Witness ==
    /\ called = "load_sequence"
    /\ The(files[LoadedName]) = <<"A", "C", "G", "T", "X">>
    /\ result = Raise("ValueError", <<"Invalid base", "X">>)

\* C4: calculate_gc_content fails with a dedicated EmptyInput error on a
\* sequence of length 0; on a non-empty sequence it returns
\* 100 * (count(G) + count(C)) / length, which is within [0, 100], 0 for an
\* all-A/T sequence and 100 for an all-G/C sequence.
C4_GcContent ==
    called = "calculate_gc_content" =>
        IF Len(sequence) = 0 THEN result.kind = "EmptyInput"
        ELSE /\ result.kind = "ok"
             /\ result.value.den = Len(sequence)
             /\ result.value.num = 100 * GcIn(sequence, 1, Len(sequence))
             /\ 0 <= result.value.num /\ result.value.num <= 100 * result.value.den
             /\ Range(sequence) \subseteq {"A", "T"} => result.value.num = 0
             /\ Range(sequence) \subseteq {"G", "C"}
                    => result.value.num = 100 * result.value.den

\* C5: for a non-empty motif no longer than the sequence, find_motif_positions
\* returns, strictly ascending, exactly the offsets i in
\* 0..len(sequence)-len(motif) with sequence[i : i+len(motif)] == motif.
C5_MotifPositions ==
    (called = "find_motif_positions" /\ Len(motif) >= 1 /\ Len(motif) <= Len(sequence))
    => /\ result.kind = "ok"
       /\ StrictlyAscending(result.value)
       /\ Range(result.value) =
            {i \in 0..(Len(sequence) - Len(motif)) :
                \A k \in 1..Len(motif) : sequence[i + k] = motif[k]}

C5_Witness ==
    /\ called = "find_motif_positions"
    /\ sequence = <<"A", "A", "A", "A">>
    /\ motif = <<"A", "A">>
    /\ result = Ok(<<0, 1, 2>>)

\* C6: every (start, end) returned by find_orfs has
\* 0 <= start < end <= len(sequence) - 1, ATG at start, a stop codon at
\* end-2..end, and a length end - start + 1 that is a multiple of 3.
C6_OrfRecords ==
    called = "find_orfs" =>
        \A k \in 1..Len(result.value) :
            LET start  == result.value[k][1]
                finish == result.value[k][2]
            IN  /\ 0 <= start /\ start < finish /\ finish <= Len(sequence) - 1
                /\ <<sequence[start + 1], sequence[start + 2], sequence[start + 3]>>
                     = <<"A", "T", "G">>
                /\ <<sequence[finish - 1], sequence[finish], sequence[finish + 1]>>
                     \in {<<"T", "A", "A">>, <<"T", "A", "G">>, <<"T", "G", "A">>}
                /\ (finish - start + 1) % 3 = 0

C6_Witness ==
    /\ called = "find_orfs"
    /\ sequence = <<"C", "A", "T", "G", "T", "G", "A", "C", "C">>
    /\ result = Ok(<<<<1, 6>>>>)

\* C7: for 1 <= w <= n the windowed GC result has ceil(n / w) entries; entry k
\* is the GC percentage of bases (k-1)*w + 1 .. min(k*w, n) over that
\* window's own length, and the last window has n mod w bases (w when w
\* divides n).
C7_Windows ==
    (called = "calculate_window_gc" /\ 1 <= window_size /\ window_size <= Len(sequence))
    => LET n == Len(sequence)
           w == window_size
           count == (n + w - 1) \div w
           lo(k) == (k - 1) * w + 1
           hi(k) == Min(k * w, n)
       IN  /\ result.kind = "ok"
           /\ Len(result.value) = count
           /\ \A k \in 1..count :
                 /\ result.value[k].den = hi(k) - lo(k) + 1
                 /\ result.value[k].num = 100 * GcIn(sequence, lo(k), hi(k))
           /\ result.value[count].den = (IF n % w = 0 THEN w ELSE n % w)
           /\ \A p \in 1..n : Cardinality({k \in 1..count : lo(k) <= p /\ p <= hi(k)}) = 1

C7_Witness ==
    /\ called = "calculate_window_gc"
    /\ sequence = <<"A", "C", "G", "T", "A">>
    /\ window_size = 2
    /\ result = Ok(<<[num |-> 100, den |-> 2], [num |-> 100, den |-> 2],
                     [num |-> 0, den |-> 1]>>)

\* codon-aligned offsets after start i that hold a stop codon
InFrameStops(s, i) ==
    {j \in (i + 3)..(Len(s) - 3) :
        /\ (j - i) % 3 = 0
        /\ <<s[j + 1], s[j + 2], s[j + 3]>>
             \in {<<"T", "A", "A">>, <<"T", "A", "G">>, <<"T", "G", "A">>}}

\* C8: for every offset i holding ATG, find_orfs returns exactly one record
\* starting at i when an in-frame stop follows, ending at the first such
\* stop, and none when no in-frame stop follows; records are in strictly
\* ascending order of start.
C8_OrfsComplete ==
    called = "find_orfs" =>
        LET orfs == result.value
        IN  /\ \A i \in 0..(Len(sequence) - 3) :
                 <<sequence[i + 1], sequence[i + 2], sequence[i + 3]>> = <<"A", "T", "G">>
                 => LET stops == InFrameStops(sequence, i)
                        found == {k \in 1..Len(orfs) : orfs[k][1] = i}
                    IN  IF stops = {} THEN found = {}
                        ELSE /\ Cardinality(found) = 1
                             /\ \A k \in found : orfs[k][2] = Kth(stops, 1) + 2
            /\ \A k \in 1..(Len(orfs) - 1) : orfs[k][1] < orfs[k + 1][1]

C8_Witness ==
    /\ called = "find_orfs"
    /\ sequence = <<"A", "T", "G", "A", "T", "G", "T", "A", "A">>
    /\ result = Ok(<<<<0, 8>>, <<3, 8>>>>)

\* C9: find_motif_positions returns the empty list, not an error, when the
\* motif is longer than the sequence and when the motif occurs nowhere.
C9_NoMatchIsEmptyList ==
    called = "find_motif_positions" =>
        LET occurs == \E i \in 0..(Len(sequence) - Len(motif)) :
                         \A k \in 1..Len(motif) : sequence[i + k] = motif[k]
        IN  /\ Len(motif) > Len(sequence) => result = Ok(<<>>)
            /\ ~occurs => result = Ok(<<>>)

C9_Witness ==
    /\ called = "find_motif_positions"
    /\ sequence = <<"A", "C">>
    /\ motif = <<"A", "C", "G">>
    /\ result = Ok(<<>>)

\* C10: get_valid_sequence returns only after a load has succeeded: a blank
\* name, a missing file, an empty file or a file with a character outside
\* A/C/G/T leads to another prompt; the sequence main works on is non-empty,
\* all A/C/G/T, and is the content of the file the returned filename names.
C10_LoadedBeforeMenu ==
    /\ [](pc # "DNA file" =>
            /\ filename \in DOMAIN files
            /\ files[filename] # NoFile
            /\ sequence = Normalised(The(files[filename]))
            /\ Len(sequence) > 0
            /\ Range(sequence) \subseteq {"A", "C", "G", "T"})
    /\ [][ (/\ pc = "DNA file"
            /\ \/ filename' = <<>>
               \/ filename' \notin DOMAIN files
               \/ files[filename'] = NoFile
               \/ Normalised(The(files[filename'])) = <<>>
               \/ ~(Range(Normalised(The(files[filename']))) \subseteq {"A", "C", "G", "T"}))
           => pc' = "DNA file" ]_vars

C10_Witness ==
    /\ pc = "menu"
    /\ files[<<"a">>] = Some(<<"A", "C", "G", "T", "X">>)
    /\ filename = <<"a", "a">>
    /\ sequence = <<"A", "T", "A", "T">>

=============================================================================
